---------------------------- MODULE Spec2Model ----------------------------
(***************************************************************************)
(* A model of wiser's indexing core (src/src/token.c): the N-gram          *)
(* splitter, the in-memory posting accumulator, the Golomb codec, the      *)
(* posting-list codec and the fetch / merge / store bridge.                *)
(*                                                                         *)
(* Encoded data is modelled at the byte level: a blob is a sequence of     *)
(* bytes 0..255, an int is four bytes in little-endian two's complement,   *)
(* and a Golomb section is a run of bits packed MSB first.                 *)
(***************************************************************************)
EXTENDS Integers, Sequences, FiniteSets, TLC

VARIABLES
  g_pc, g_m, g_n, g_tail, g_buf, g_out,
  c_pc, c_compress, c_documents_count, c_postings, c_blob, c_decoded,
  m_pc, m_pa, m_pb, m_ret,
  t_pc, t_document_id, t_text, t_n, t_postings,
  f_pc, f_compress, f_documents_count, f_body, f_db, f_fault, f_fetched, f_puts,
  i_pc, i_compress, i_n, i_documents_count, i_used, i_buffer, i_store, i_last

golombVars == <<g_pc, g_m, g_n, g_tail, g_buf, g_out>>

codecVars == <<c_pc, c_compress, c_documents_count, c_postings, c_blob, c_decoded>>

mergeVars == <<m_pc, m_pa, m_pb, m_ret>>

textVars == <<t_pc, t_document_id, t_text, t_n, t_postings>>

fetchVars ==
  <<f_pc, f_compress, f_documents_count, f_body, f_db, f_fault, f_fetched, f_puts>>

indexVars ==
  <<i_pc, i_compress, i_n, i_documents_count, i_used, i_buffer, i_store, i_last>>

vars == <<golombVars, codecVars, mergeVars, textVars, fetchVars, indexVars>>

\* Each specification below drives one part of the program; the variables of
\* the other parts stay idle.
notGolomb == <<codecVars, mergeVars, textVars, fetchVars, indexVars>>

notCodec == <<golombVars, mergeVars, textVars, fetchVars, indexVars>>

notMerge == <<golombVars, codecVars, textVars, fetchVars, indexVars>>

notText == <<golombVars, codecVars, mergeVars, fetchVars, indexVars>>

notFetch == <<golombVars, codecVars, mergeVars, textVars, indexVars>>

notIndex == <<golombVars, codecVars, mergeVars, textVars, fetchVars>>

GolombIdle ==
  /\ g_pc = "idle" /\ g_m = 1 /\ g_n = 0 /\ g_tail = <<>>
  /\ g_buf = <<>> /\ g_out = <<>>

CodecIdle ==
  /\ c_pc = "idle" /\ c_compress = "none" /\ c_documents_count = 0
  /\ c_postings = <<>> /\ c_blob = <<>> /\ c_decoded = <<>>

MergeIdle ==
  /\ m_pc = "idle" /\ m_pa = <<>> /\ m_pb = <<>> /\ m_ret = <<>>

TextIdle ==
  /\ t_pc = "idle" /\ t_document_id = 0 /\ t_text = <<>> /\ t_n = 1
  /\ t_postings = <<>>

FetchIdle ==
  /\ f_pc = "idle" /\ f_compress = "none" /\ f_documents_count = 0
  /\ f_body = <<>> /\ f_db = <<>> /\ f_fault = "none" /\ f_fetched = <<>>
  /\ f_puts = 0

IndexIdle ==
  /\ i_pc = "idle" /\ i_compress = "none" /\ i_n = 1 /\ i_documents_count = 0
  /\ i_used = {} /\ i_buffer = <<>> /\ i_store = <<>> /\ i_last = <<>>

(***************************************************************************)
(* Bounds of the model.                                                    *)
(***************************************************************************)
MaxM == 9
MaxN == 20
MaxTail == 2
MaxDocId == 3
MaxPostings == 2
MaxPos == 2
MaxTotal == 5
MaxMergeDocId == 4
MaxTextLen == 4
MaxNgram == 2
MaxFetchDocId == 3
MaxFetchTotal == 4

(***************************************************************************)
(* Machine integers and bytes.                                             *)
(***************************************************************************)
IntSize == 4

Byte == 0..255

\* sizeof(int) bytes of v, least significant byte first.  % and \div round
\* down, which makes the bytes of a negative v its two's complement.
RECURSIVE le_bytes(_, _)
le_bytes(u, k) ==
  IF k = 0 THEN <<>> ELSE <<u % 256>> \o le_bytes(u \div 256, k - 1)

int_bytes(v) == le_bytes(v, IntSize)

(***************************************************************************)
(* The bit-stream buffer (util.h: buffer, append_buffer,                   *)
(* append_buffer_bit).  data holds the finished bytes (BUFFER_PTR /        *)
(* BUFFER_SIZE), cur the byte being filled and bit the number of bits      *)
(* already placed in it.                                                   *)
(***************************************************************************)
alloc_buffer == [data |-> <<>>, cur |-> 0, bit |-> 0]

append_buffer_bit(buf, bit) ==
  LET cur == IF bit # 0 THEN buf.cur + 2^(7 - buf.bit) ELSE buf.cur
  IN  IF buf.bit + 1 = 8
        THEN [data |-> Append(buf.data, cur), cur |-> 0, bit |-> 0]
        ELSE [data |-> buf.data, cur |-> cur, bit |-> buf.bit + 1]

\* append_buffer(buf, data, size): pad a started byte with zero bits, then
\* copy the bytes.  append_buffer(buf, NULL, 0) is append_buffer(buf, <<>>).
append_buffer(buf, bytes) ==
  LET padded == IF buf.bit # 0 THEN Append(buf.data, buf.cur) ELSE buf.data
  IN  [data |-> padded \o bytes, cur |-> 0, bit |-> 0]

BUFFER_PTR(buf) == buf.data

(***************************************************************************)
(* Reading.  A reader is the pair (buf, bit) of the decoder: p is the      *)
(* 1-based index of the current byte, bit the mask of the next bit.  The   *)
(* end pointer buf_end is Len(blob) + 1.                                   *)
(***************************************************************************)
BitAnd(r, i) == IF i > 0 /\ (r \div i) % 2 = 1 THEN i ELSE 0

read_bit(blob, rd) ==
  IF rd.p >= Len(blob) + 1
    THEN [r |-> -1, rd |-> rd]
    ELSE LET r   == IF BitAnd(blob[rd.p], rd.bit) # 0 THEN 1 ELSE 0
             bit == rd.bit \div 2
         IN  [r |-> r,
              rd |-> IF bit = 0 THEN [p |-> rd.p + 1, bit |-> 128]
                                ELSE [p |-> rd.p, bit |-> bit]]

(***************************************************************************)
(* The Golomb codec.                                                       *)
(***************************************************************************)
RECURSIVE calc_loop(_, _, _)
calc_loop(m, b, l) ==
  IF m > l THEN calc_loop(m, b + 1, l * 2) ELSE [ok |-> TRUE, b |-> b, t |-> l - m]

\* Parameters counted with m >= l in place of m > l.
RECURSIVE calc_loop_ge(_, _, _)
calc_loop_ge(m, b, l) ==
  IF m >= l THEN calc_loop_ge(m, b + 1, l * 2) ELSE [ok |-> TRUE, b |-> b, t |-> l - m]

calc_golomb_params_ge(m) ==
  IF m > 0 THEN calc_loop_ge(m, 0, 1) ELSE [ok |-> FALSE, b |-> 0, t |-> 0]

\* assert(m > 0) ends the process when it fails: ok = FALSE.
calc_golomb_params(m) ==
  IF m > 0 THEN calc_loop(m, 0, 1) ELSE [ok |-> FALSE, b |-> 0, t |-> 0]

RECURSIVE append_ones(_, _)
append_ones(buf, i) ==
  IF i = 0 THEN buf ELSE append_ones(append_buffer_bit(buf, 1), i - 1)

\* for (i = top; i; i >>= 1) append_buffer_bit(buf, r & i)
RECURSIVE append_bits(_, _, _)
append_bits(buf, r, i) ==
  IF i = 0 THEN buf
  ELSE append_bits(append_buffer_bit(buf, BitAnd(r, i)), r, i \div 2)

\* n / m and n % m of C; the codec only ever divides by m > 0.
c_div(n, m) == IF n >= 0 THEN n \div m ELSE -((-n) \div m)

c_mod(n, m) == n - m * c_div(n, m)

golomb_encoding(m, b, t, n, buf) ==
  LET unary == append_buffer_bit(append_ones(buf, c_div(n, m)), 0)
      r     == c_mod(n, m)
  IN  IF m > 1
        THEN IF r < t
               THEN append_bits(unary, r, 2^(b - 2))
               ELSE append_bits(unary, r + t, 2^(b - 1))
        ELSE unary

\* while (read_bit(...) == 1) n += m
RECURSIVE decode_unary(_, _, _, _)
decode_unary(m, blob, rd, n) ==
  LET x == read_bit(blob, rd)
  IN  IF x.r = 1 THEN decode_unary(m, blob, x.rd, n + m)
      ELSE [n |-> n, rd |-> x.rd]

\* for (i = 0; i < b - 1; i++) { z = read_bit; if (z == -1) break; r = r<<1 | z }
RECURSIVE decode_bits(_, _, _, _, _)
decode_bits(b, blob, rd, r, i) ==
  IF i < b - 1
    THEN LET x == read_bit(blob, rd)
         IN  IF x.r = -1 THEN [r |-> r, rd |-> rd]
             ELSE decode_bits(b, blob, x.rd, 2 * r + x.r, i + 1)
    ELSE [r |-> r, rd |-> rd]

\* A decoder that takes the extra bit of the remainder one value late.
golomb_decoding_late(m, b, t, blob, rd) ==
  LET u == decode_unary(m, blob, rd, 0)
  IN  IF m > 1
        THEN LET f == decode_bits(b, blob, u.rd, 0, 0)
             IN  IF f.r > t
                   THEN LET x == read_bit(blob, f.rd)
                        IN  IF x.r = -1
                              THEN [n |-> u.n + f.r, rd |-> f.rd]
                              ELSE [n |-> u.n + (2 * f.r + x.r) - t, rd |-> x.rd]
                   ELSE [n |-> u.n + f.r, rd |-> f.rd]
        ELSE u

golomb_decoding(m, b, t, blob, rd) ==
  LET u == decode_unary(m, blob, rd, 0)
  IN  IF m > 1
        THEN LET f == decode_bits(b, blob, u.rd, 0, 0)
             IN  IF f.r >= t
                   THEN LET x == read_bit(blob, f.rd)
                        IN  IF x.r = -1
                              THEN [n |-> u.n + f.r, rd |-> f.rd]
                              ELSE [n |-> u.n + (2 * f.r + x.r) - t, rd |-> x.rd]
                   ELSE [n |-> u.n + f.r, rd |-> f.rd]
        ELSE u

(***************************************************************************)
(* The Golomb codec on its own: one number n is coded with parameter m,    *)
(* followed by arbitrary further bits of the stream, and decoded again.    *)
(***************************************************************************)
RECURSIVE BitSeqs(_)
BitSeqs(k) ==
  IF k = 0 THEN {<<>>}
  ELSE BitSeqs(k - 1) \cup {Append(s, x) : s \in BitSeqs(k - 1), x \in {0, 1}}

RECURSIVE append_seq(_, _)
append_seq(buf, bits) ==
  IF bits = <<>> THEN buf
  ELSE append_seq(append_buffer_bit(buf, Head(bits)), Tail(bits))

\* The reader position after k bits have been read from the start.
reader_after(k) == [p |-> (k \div 8) + 1, bit |-> 2^(7 - (k % 8))]

reader_start == [p |-> 1, bit |-> 128]

InitGolomb ==
  /\ g_pc = "start"
  /\ g_m \in 1..MaxM
  /\ g_n \in 0..MaxN
  /\ g_tail \in BitSeqs(MaxTail)
  /\ g_buf = alloc_buffer
  /\ g_out = [n |-> 0, rd |-> reader_start]
  /\ CodecIdle /\ MergeIdle /\ TextIdle /\ FetchIdle /\ IndexIdle

GolombEncode ==
  /\ g_pc = "start"
  /\ LET p == calc_golomb_params(g_m)
     IN  g_buf' = golomb_encoding(g_m, p.b, p.t, g_n, g_buf)
  /\ g_pc' = "encoded"
  /\ UNCHANGED <<g_m, g_n, g_tail, g_out, notGolomb>>

GolombDecode ==
  /\ g_pc = "encoded"
  /\ LET p    == calc_golomb_params(g_m)
         blob == BUFFER_PTR(append_buffer(append_seq(g_buf, g_tail), <<>>))
     IN  g_out' = golomb_decoding(g_m, p.b, p.t, blob, reader_start)
  /\ g_pc' = "decoded"
  /\ UNCHANGED <<g_m, g_n, g_tail, g_buf, notGolomb>>

NextGolomb == GolombEncode \/ GolombDecode

SpecGolomb == InitGolomb /\ [][NextGolomb]_vars

\* The number of bits golomb_encoding has written into g_buf.
BitsWritten(buf) == 8 * Len(buf.data) + buf.bit

\* C2: for every m >= 1 and n >= 0, with b and t from calc_golomb_params(m),
\* golomb_decoding of the bits golomb_encoding wrote returns n and leaves the
\* reader exactly after the last bit written, whatever bits follow.
C2_GolombRoundTrip ==
  g_pc = "decoded" =>
    /\ g_out.n = g_n
    /\ g_out.rd = reader_after(BitsWritten(g_buf))

C2_Witness ==
  /\ g_pc = "decoded"
  /\ g_m = 5 /\ g_n = 13
  /\ g_tail = <<1, 1>>
  /\ g_out.n = 13

(***************************************************************************)
(* Posting lists.  A posting is one element of the linked list             *)
(* postings_list: document_id, positions_count and the positions array.    *)
(***************************************************************************)
Max(a, b) == IF a >= b THEN a ELSE b

MinOf(S) == CHOOSE x \in S : \A y \in S : x <= y

RECURSIVE SortedSeq(_)
SortedSeq(S) ==
  IF S = {} THEN <<>> ELSE <<MinOf(S)>> \o SortedSeq(S \ {MinOf(S)})

Posting(d, S) ==
  [document_id |-> d, positions_count |-> Cardinality(S), positions |-> SortedSeq(S)]

\* What the memory after the end of a blob may hold: the decoders read ints
\* there when a blob is shorter than its header says.  A pattern gives the four
\* bytes that repeat from the first byte after the blob.
JunkPatterns == {<<0, 0, 0, 0>>, <<255, 255, 255, 255>>, <<1, 0, 0, 0>>}

byte_at(blob, junk, k) ==
  IF k <= Len(blob) THEN blob[k] ELSE junk[((k - Len(blob) - 1) % IntSize) + 1]

\* *((int *)p): the int stored in the four bytes from index p.
read_int(blob, junk, p) ==
  LET top == byte_at(blob, junk, p + 3)
  IN  byte_at(blob, junk, p) + 256 * byte_at(blob, junk, p + 1)
      + 65536 * byte_at(blob, junk, p + 2)
      + 16777216 * (IF top >= 128 THEN top - 256 ELSE top)

(***************************************************************************)
(* The raw format.                                                         *)
(***************************************************************************)
\* The loops over a list are modelled by the state after the first k
\* iterations: Front is the part of the list those iterations have handled.
Front(list) == SubSeq(list, 1, Len(list) - 1)

Last(list) == list[Len(list)]

\* while ((pos = utarray_next(p->positions, pos))) append_buffer(postings_e, pos, ...)
RECURSIVE encode_positions_none(_, _)
encode_positions_none(buf, positions) ==
  IF positions = <<>> THEN buf
  ELSE append_buffer(encode_positions_none(buf, Front(positions)),
                     int_bytes(Last(positions)))

\* LL_FOREACH(postings, p) { ... }
RECURSIVE encode_postings_none(_, _, _)
encode_postings_none(postings, postings_len, buf) ==
  IF postings = <<>> THEN [st |-> "ok", buf |-> buf]
  ELSE LET before == encode_postings_none(Front(postings), postings_len, buf)
           p  == Last(postings)
           b1 == append_buffer(before.buf, int_bytes(p.document_id))
           b2 == append_buffer(b1, int_bytes(p.positions_count))
       IN  [st |-> "ok", buf |-> encode_positions_none(b2, p.positions)]

RECURSIVE decode_none_loop(_, _, _, _)
decode_none_loop(blob, junk, p, acc) ==
  IF p < Len(blob) + 1
    THEN LET document_id     == read_int(blob, junk, p)
             positions_count == read_int(blob, junk, p + IntSize)
             k               == Max(positions_count, 0)
             pl == [document_id |-> document_id,
                    positions_count |-> positions_count,
                    positions |-> [i \in 1..k |->
                                     read_int(blob, junk, p + IntSize * (i + 1))]]
         IN  decode_none_loop(blob, junk, p + IntSize * (k + 2), Append(acc, pl))
    ELSE acc

decode_postings_none(blob, junk) ==
  LET postings == decode_none_loop(blob, junk, 1, <<>>)
  IN  [st |-> "ok", rc |-> 0, postings |-> postings, postings_len |-> Len(postings)]

(***************************************************************************)
(* The Golomb format.                                                      *)
(***************************************************************************)
\* if (bit != 0x80) { postings_e++; bit = 0x80; }
align(rd) == IF rd.bit # 128 THEN [p |-> rd.p + 1, bit |-> 128] ELSE rd

\* The gaps of a sequence of values, each coded with (m, b, t); pre is the
\* value before the first (pre_document_id = 0, pre_position = -1).
RECURSIVE encode_gaps(_, _, _, _, _, _)
encode_gaps(m, b, t, values, pre, buf) ==
  IF values = <<>> THEN buf
  ELSE LET before == Front(values)
           prev   == IF before = <<>> THEN pre ELSE Last(before)
       IN  golomb_encoding(m, b, t, Last(values) - prev - 1,
                           encode_gaps(m, b, t, before, pre, buf))

\* for (i = n / m; i; i--) of golomb_encoding counts down from a negative
\* quotient when a gap is negative and does not come to an end: the encoder
\* never returns, which the model reports like a failed assert (st = "abort").
gaps_diverge(m, values, pre) ==
  \E i \in 1..Len(values) :
    c_div(values[i] - (IF i = 1 THEN pre ELSE values[i - 1]) - 1, m) < 0

\* The second LL_FOREACH of encode_postings_golomb.
RECURSIVE encode_positions_golomb(_, _)
encode_positions_golomb(postings, buf) ==
  IF postings = <<>> THEN [st |-> "ok", buf |-> buf]
  ELSE LET before == encode_positions_golomb(Front(postings), buf)
           p  == Last(postings)
           b1 == append_buffer(before.buf, int_bytes(p.positions_count))
       IN  IF before.st = "abort" THEN before
           ELSE IF p.positions # <<>> /\ p.positions_count # 0
             THEN LET mp == c_div(Last(p.positions) + 1, p.positions_count)
                      g  == calc_golomb_params(mp)
                      b2 == append_buffer(b1, int_bytes(mp))
                      b3 == encode_gaps(mp, g.b, g.t, p.positions, -1, b2)
                  IN  IF ~g.ok \/ gaps_diverge(mp, p.positions, -1)
                        THEN [st |-> "abort", buf |-> b1]
                      ELSE [st |-> "ok", buf |-> append_buffer(b3, <<>>)]
             ELSE [st |-> "ok", buf |-> b1]

DocumentIds(postings) == [i \in 1..Len(postings) |-> postings[i].document_id]

encode_postings_golomb(documents_count, postings, postings_len, buf) ==
  LET b0 == append_buffer(buf, int_bytes(postings_len))
  IN  IF postings # <<>> /\ postings_len # 0
        THEN LET m  == c_div(documents_count, postings_len)
                 g  == calc_golomb_params(m)
                 b1 == append_buffer(b0, int_bytes(m))
                 b2 == encode_gaps(m, g.b, g.t, DocumentIds(postings), 0, b1)
             IN  IF ~g.ok \/ gaps_diverge(m, DocumentIds(postings), 0)
                   THEN [st |-> "abort", buf |-> b1]
                 ELSE encode_positions_golomb(postings, append_buffer(b2, <<>>))
        ELSE encode_positions_golomb(postings, b0)

\* A decoder that adds the gaps without the one that separates two values.
RECURSIVE decode_gaps_dense(_, _, _, _, _, _, _)
decode_gaps_dense(m, b, t, blob, rd, pre, i) ==
  IF i <= 0 THEN [values |-> <<>>, rd |-> rd]
  ELSE LET before == decode_gaps_dense(m, b, t, blob, rd, pre, i - 1)
           prev   == IF before.values = <<>> THEN pre ELSE Last(before.values)
           d      == golomb_decoding(m, b, t, blob, before.rd)
       IN  [values |-> Append(before.values, prev + d.n), rd |-> d.rd]

\* for (i = 0; i < count; i++) { gap = golomb_decoding(...); value += gap + 1; }
\* after its first i iterations: the values decoded and the reader.  pre is the
\* value before the first (pre_document_id = 0, position = -1).
RECURSIVE decode_gaps(_, _, _, _, _, _, _)
decode_gaps(m, b, t, blob, rd, pre, i) ==
  IF i <= 0 THEN [values |-> <<>>, rd |-> rd]
  ELSE LET before == decode_gaps(m, b, t, blob, rd, pre, i - 1)
           prev   == IF before.values = <<>> THEN pre ELSE Last(before.values)
           d      == golomb_decoding(m, b, t, blob, before.rd)
       IN  [values |-> Append(before.values, prev + d.n + 1), rd |-> d.rd]

\* for (i = 0, pl = *postings; i < docs_count; i++, pl = pl->next) { ... }
\* over the postings whose document ids are ids.
RECURSIVE decode_postings_loop(_, _, _, _)
decode_postings_loop(blob, junk, rd, ids) ==
  IF ids = <<>> THEN [st |-> "ok", postings |-> <<>>, rd |-> rd]
  ELSE LET before == decode_postings_loop(blob, junk, rd, Front(ids))
           positions_count == read_int(blob, junk, before.rd.p)
           mp == read_int(blob, junk, before.rd.p + IntSize)
           g  == calc_golomb_params(mp)
           r0 == [p |-> before.rd.p + 2 * IntSize, bit |-> 128]
           d  == decode_gaps(mp, g.b, g.t, blob, r0, -1, positions_count)
           pl == [document_id |-> Last(ids),
                  positions_count |-> positions_count,
                  positions |-> d.values]
       IN  IF before.st = "abort" THEN before
           ELSE IF ~g.ok
             THEN [st |-> "abort", postings |-> before.postings, rd |-> before.rd]
           ELSE [st |-> "ok", postings |-> Append(before.postings, pl),
                 rd |-> align(d.rd)]

decode_postings_golomb(blob, junk) ==
  LET docs_count == read_int(blob, junk, 1)
      m  == read_int(blob, junk, 1 + IntSize)
      g  == calc_golomb_params(m)
      r0 == [p |-> 1 + 2 * IntSize, bit |-> 128]
      d  == [ids |-> decode_gaps(m, g.b, g.t, blob, r0, 0, docs_count).values,
             rd |-> decode_gaps(m, g.b, g.t, blob, r0, 0, docs_count).rd]
      l  == decode_postings_loop(blob, junk, align(d.rd), d.ids)
  IN  IF ~g.ok \/ l.st = "abort"
        THEN [st |-> "abort", rc |-> 0, postings |-> <<>>, postings_len |-> 0]
        ELSE [st |-> "ok", rc |-> 0, postings |-> l.postings,
              postings_len |-> Len(d.ids)]

\* env->compress selects the format.
decode_postings(compress, blob, junk) ==
  IF compress = "none" THEN decode_postings_none(blob, junk)
  ELSE decode_postings_golomb(blob, junk)

encode_postings(compress, documents_count, postings, postings_len, buf) ==
  IF compress = "none" THEN encode_postings_none(postings, postings_len, buf)
  ELSE encode_postings_golomb(documents_count, postings, postings_len, buf)

(***************************************************************************)
(* The posting-list codec on its own: a legal posting list is encoded      *)
(* and the blob decoded again.                                             *)
(***************************************************************************)
PositionSets == (SUBSET (0..MaxPos)) \ {{}}

DocSets == {D \in SUBSET (1..MaxDocId) : D # {} /\ Cardinality(D) <= MaxPostings}

ListOf(D, f) == [i \in 1..Cardinality(D) |-> Posting(SortedSeq(D)[i], f[SortedSeq(D)[i]])]

LegalLists == UNION {{ListOf(D, f) : f \in [D -> PositionSets]} : D \in DocSets}

\* Scenario 3 of the specification's testable properties.
ScenarioList == <<Posting(1, {0, 4}), Posting(3, {7})>>

Compress == {"none", "golomb"}

InitCodec ==
  /\ c_pc = "start"
  /\ c_compress \in Compress
  /\ \/ /\ c_postings \in LegalLists
        /\ c_documents_count \in Len(c_postings)..MaxTotal
     \/ /\ c_postings = ScenarioList
        /\ c_documents_count = 10
  /\ c_blob = <<>>
  /\ c_decoded = [st |-> "ok", rc |-> 0, postings |-> <<>>, postings_len |-> 0]
  /\ GolombIdle /\ MergeIdle /\ TextIdle /\ FetchIdle /\ IndexIdle

Encode ==
  /\ c_pc = "start"
  /\ LET e == encode_postings(c_compress, c_documents_count, c_postings,
                              Len(c_postings), alloc_buffer)
     IN  /\ c_blob' = BUFFER_PTR(e.buf)
         /\ c_pc' = IF e.st = "ok" THEN "encoded" ELSE "aborted"
  /\ UNCHANGED <<c_compress, c_documents_count, c_postings, c_decoded, notCodec>>

Decode ==
  /\ c_pc = "encoded"
  /\ \E junk \in JunkPatterns :
       c_decoded' = decode_postings(c_compress, c_blob, junk)
  /\ c_pc' = "decoded"
  /\ UNCHANGED <<c_compress, c_documents_count, c_postings, c_blob, notCodec>>

NextCodec == Encode \/ Decode

SpecCodec == InitCodec /\ [][NextCodec]_vars

RECURSIVE merge_loop(_, _, _)
merge_loop(pa, pb, ret) ==
  IF pa = <<>> /\ pb = <<>> THEN [st |-> "ok", list |-> ret]
  ELSE IF pb = <<>> \/ (pa # <<>> /\ Head(pa).document_id <= Head(pb).document_id)
    THEN merge_loop(Tail(pa), pb, Append(ret, Head(pa)))
  ELSE IF pa = <<>> \/ Head(pa).document_id >= Head(pb).document_id
    THEN merge_loop(pa, Tail(pb), Append(ret, Head(pb)))
  ELSE [st |-> "abort", list |-> ret]

\* A merge that puts the second list after the first.
merge_postings_concat(pa, pb) == [st |-> "ok", list |-> pa \o pb]

merge_postings(pa, pb) == merge_loop(pa, pb, <<>>)

(***************************************************************************)
(* merge_postings on its own: two ascending lists are merged.  The         *)
(* posting of document d carries the positions <<d>> in the first list     *)
(* and <<d, d + 1>> in the second, so that the origin of every element     *)
(* of the result can be told.                                              *)
(***************************************************************************)
MergeList(D, side) ==
  [i \in 1..Cardinality(D) |->
     Posting(SortedSeq(D)[i],
             IF side = "a" THEN {SortedSeq(D)[i]}
             ELSE {SortedSeq(D)[i], SortedSeq(D)[i] + 1})]

InitMerge ==
  /\ m_pc = "start"
  /\ m_pa \in {MergeList(D, "a") : D \in SUBSET (1..MaxMergeDocId)}
  /\ m_pb \in {MergeList(D, "b") : D \in SUBSET (1..MaxMergeDocId)}
  /\ m_ret = [st |-> "ok", list |-> <<>>]
  /\ GolombIdle /\ CodecIdle /\ TextIdle /\ FetchIdle /\ IndexIdle

Merge ==
  /\ m_pc = "start"
  /\ m_ret' = merge_postings(m_pa, m_pb)
  /\ m_pc' = "merged"
  /\ UNCHANGED <<m_pa, m_pb, notMerge>>

\* The caller drops the result and the driver starts over with other lists.
MergeAgain ==
  /\ m_pc = "merged"
  /\ m_pc' = "start"
  /\ m_ret' = [st |-> "ok", list |-> <<>>]
  /\ UNCHANGED <<m_pa, m_pb, notMerge>>

NextMerge == Merge \/ MergeAgain

SpecMerge == InitMerge /\ [][NextMerge]_vars

Elements(list) == {list[i] : i \in 1..Len(list)}

DocIdSet(list) == {list[i].document_id : i \in 1..Len(list)}

StrictlyAscending(list) ==
  \A i \in 1..(Len(list) - 1) : list[i].document_id < list[i + 1].document_id

\* C3: for two lists that are each strictly ascending by document_id and
\* share no document id, merge_postings returns a strictly ascending list
\* that holds exactly the postings of both, each once and unchanged.
C3_MergeDisjoint ==
  (m_pc = "merged" /\ DocIdSet(m_pa) \cap DocIdSet(m_pb) = {}) =>
    /\ m_ret.st = "ok"
    /\ StrictlyAscending(m_ret.list)
    /\ Len(m_ret.list) = Len(m_pa) + Len(m_pb)
    /\ Elements(m_ret.list) = Elements(m_pa) \cup Elements(m_pb)

C3_Witness ==
  /\ m_pc = "merged"
  /\ DocIdSet(m_pa) = {1, 4}
  /\ DocIdSet(m_pb) = {2, 3}
  /\ DocumentIds(m_ret.list) = <<1, 2, 3, 4>>

\* C11 as claimed: when both lists hold a posting of the same document_id,
\* merge_postings aborts and returns no list.
C11_AsClaimed ==
  (m_pc = "merged" /\ DocIdSet(m_pa) \cap DocIdSet(m_pb) # {}) =>
    m_ret.st = "abort"

(***************************************************************************)
(* Tokenization.                                                           *)
(***************************************************************************)
wiser_is_ignored_char(ustr) ==
  \/ ustr \in {32, 12, 10, 13, 9, 11}
  \/ ustr \in 33..47
  \/ ustr \in 58..64
  \/ ustr \in 91..96
  \/ ustr \in 123..126
  \/ ustr \in {12288, 12289, 12290, 65288, 65289, 65281, 65292, 65306, 65307, 65311}

\* text is the buffer, ustr the 0-based offset of the cursor in it and
\* Len(text) the offset of ustr_end.
RECURSIVE skip_ignored(_, _)
skip_ignored(text, ustr) ==
  IF ustr < Len(text) /\ wiser_is_ignored_char(text[ustr + 1])
    THEN skip_ignored(text, ustr + 1) ELSE ustr

RECURSIVE take_chars(_, _, _, _)
take_chars(text, n, i, p) ==
  IF i < n /\ p < Len(text) /\ ~wiser_is_ignored_char(text[p + 1])
    THEN take_chars(text, n, i + 1, p + 1) ELSE p

ngram_next(text, ustr, n) ==
  LET start == skip_ignored(text, ustr)
  IN  [start |-> start, len |-> take_chars(text, n, 0, start) - start]

\* utf32toutf8 (util.c): the UTF-8 bytes of a run of code points.
utf8_of(c) ==
  IF c < 128 THEN <<c>>
  ELSE IF c < 2048 THEN <<192 + (c \div 64), 128 + (c % 64)>>
  ELSE <<224 + (c \div 4096), 128 + ((c \div 64) % 64), 128 + (c % 64)>>

RECURSIVE utf32toutf8(_)
utf32toutf8(ustr) ==
  IF ustr = <<>> THEN <<>> ELSE utf8_of(Head(ustr)) \o utf32toutf8(Tail(ustr))

\* db_get_token_id (database.c) gives every token its own id and reports the
\* docs_count stored for it.  The id stands for the database's numbering: the
\* token's bytes read as a number in base 256.
RECURSIVE db_get_token_id(_)
db_get_token_id(token) ==
  IF token = <<>> THEN 0
  ELSE Head(token) + 256 * db_get_token_id(Tail(token))

db_token_docs_count(db, token_id) ==
  IF token_id \in DOMAIN db THEN db[token_id].docs_count ELSE 0

(***************************************************************************)
(* The in-memory inverted index: a function from token id to               *)
(* inverted_index_value.  NULL is the function with no entry.              *)
(***************************************************************************)
NoIndex == <<>>

create_new_inverted_index(token_id, docs_count) ==
  [token_id |-> token_id, docs_count |-> docs_count,
   positions_count |-> 0, postings_list |-> <<>>]

create_new_postings_list(document_id) ==
  [document_id |-> document_id, positions_count |-> 1, positions |-> <<>>]

token_to_postings_list(db, document_id, token, position, postings) ==
  LET token_id == db_get_token_id(token)
      token_docs_count == db_token_docs_count(db, token_id)
  IN  IF token_id \in DOMAIN postings
        THEN LET ii_entry == postings[token_id]
                 pl  == Head(ii_entry.postings_list)
                 pl2 == [pl EXCEPT !.positions_count = @ + 1,
                                   !.positions = Append(@, position)]
             IN  [postings EXCEPT ![token_id] =
                    [ii_entry EXCEPT
                       !.postings_list = <<pl2>> \o Tail(ii_entry.postings_list),
                       !.positions_count = @ + 1]]
        ELSE LET e  == create_new_inverted_index(
                         token_id, IF document_id # 0 THEN 1 ELSE token_docs_count)
                 pl == [create_new_postings_list(document_id) EXCEPT
                          !.positions = <<position>>]
             IN  (token_id :> [e EXCEPT !.postings_list = <<pl>>,
                                        !.positions_count = @ + 1]) @@ postings

\* HASH_ITER over to_be_added: every entry is moved into base or merged with
\* base's entry of the same token.
RECURSIVE merge_inverted_index(_, _)
merge_inverted_index(base, to_be_added) ==
  IF DOMAIN to_be_added = {} THEN base
  ELSE LET id   == MinOf(DOMAIN to_be_added)
           p    == to_be_added[id]
           rest == [k \in DOMAIN to_be_added \ {id} |-> to_be_added[k]]
       IN  IF id \in DOMAIN base
             THEN merge_inverted_index(
                    [base EXCEPT ![id] =
                       [@ EXCEPT
                          !.postings_list =
                             merge_postings(base[id].postings_list, p.postings_list).list,
                          !.docs_count = @ + p.docs_count]],
                    rest)
             ELSE merge_inverted_index((id :> p) @@ base, rest)

\* A loop that keeps short windows for a query and drops them for a document.
RECURSIVE text_loop_query_keeps(_, _, _, _, _, _, _)
text_loop_query_keeps(db, document_id, text, n, t, position, buffer_postings) ==
  LET w == ngram_next(text, t, n)
  IN  IF w.len = 0 THEN buffer_postings
      ELSE text_loop_query_keeps(db, document_id, text, n, w.start + 1, position + 1,
             IF w.len >= n \/ document_id = 0
               THEN token_to_postings_list(
                      db, document_id,
                      utf32toutf8(SubSeq(text, w.start + 1, w.start + w.len)),
                      position, buffer_postings)
               ELSE buffer_postings)

\* A loop that records the index of the window in the text as its position.
RECURSIVE text_loop_buffer_index(_, _, _, _, _, _, _)
text_loop_buffer_index(db, document_id, text, n, t, position, buffer_postings) ==
  LET w == ngram_next(text, t, n)
  IN  IF w.len = 0 THEN buffer_postings
      ELSE text_loop_buffer_index(db, document_id, text, n, w.start + 1, position + 1,
             IF w.len >= n \/ document_id # 0
               THEN token_to_postings_list(
                      db, document_id,
                      utf32toutf8(SubSeq(text, w.start + 1, w.start + w.len)),
                      w.start, buffer_postings)
               ELSE buffer_postings)

\* for (; (t_len = ngram_next(t, text_end, n, &t)); t++, position++) { ... }
RECURSIVE text_loop(_, _, _, _, _, _, _)
text_loop(db, document_id, text, n, t, position, buffer_postings) ==
  LET w == ngram_next(text, t, n)
  IN  IF w.len = 0 THEN buffer_postings
      ELSE text_loop(db, document_id, text, n, w.start + 1, position + 1,
             IF w.len >= n \/ document_id # 0
               THEN token_to_postings_list(
                      db, document_id,
                      utf32toutf8(SubSeq(text, w.start + 1, w.start + w.len)),
                      position, buffer_postings)
               ELSE buffer_postings)

text_to_postings_lists(db, document_id, text, n, postings) ==
  LET buffer_postings == text_loop(db, document_id, text, n, 0, 0, NoIndex)
  IN  IF DOMAIN postings # {}
        THEN merge_inverted_index(postings, buffer_postings)
        ELSE buffer_postings

(***************************************************************************)
(* text_to_postings_lists on its own: one text is split with a fresh       *)
(* index, as a document (document_id 1) or as a query (document_id 0).     *)
(***************************************************************************)
Alphabet == {97, 98, 32}

RECURSIVE TextsOfLen(_)
TextsOfLen(k) ==
  IF k = 0 THEN {<<>>}
  ELSE {Append(s, c) : s \in TextsOfLen(k - 1), c \in Alphabet}

Texts == UNION {TextsOfLen(k) : k \in 0..MaxTextLen}

\* Scenario 1 of the specification's testable properties: "ab cd".
ScenarioText == <<97, 98, 32, 99, 100>>

InitText ==
  /\ t_pc = "start"
  /\ t_document_id \in 0..1
  /\ t_text \in Texts \cup {ScenarioText}
  /\ t_n \in 1..MaxNgram
  /\ t_postings = NoIndex
  /\ GolombIdle /\ CodecIdle /\ MergeIdle /\ FetchIdle /\ IndexIdle

TextToPostingsLists ==
  /\ t_pc = "start"
  /\ t_postings' = text_to_postings_lists(<<>>, t_document_id, t_text, t_n, t_postings)
  /\ t_pc' = "done"
  /\ UNCHANGED <<t_document_id, t_text, t_n, notText>>

\* free_inverted_index: the index is released and the driver starts over.
FreeIndex ==
  /\ t_pc = "done"
  /\ t_postings' = NoIndex
  /\ t_pc' = "start"
  /\ UNCHANGED <<t_document_id, t_text, t_n, notText>>

NextText == TextToPostingsLists \/ FreeIndex

SpecText == InitText /\ [][NextText]_vars

\* The windows of a text, told from the text alone: a window starts at every
\* code point that is not ignored and runs to the next ignored code point or
\* the end of the text, cut to n code points.
WindowStarts(text) ==
  {s \in 0..(Len(text) - 1) : ~wiser_is_ignored_char(text[s + 1])}

RECURSIVE RunLength(_, _)
RunLength(text, s) ==
  IF s < Len(text) /\ ~wiser_is_ignored_char(text[s + 1])
    THEN 1 + RunLength(text, s + 1) ELSE 0

WindowLength(text, n, s) ==
  IF RunLength(text, s) < n THEN RunLength(text, s) ELSE n

WindowTokenId(text, n, s) ==
  db_get_token_id(utf32toutf8(SubSeq(text, s + 1, s + WindowLength(text, n, s))))

ShortWindows(text, n) == {s \in WindowStarts(text) : WindowLength(text, n, s) < n}

\* The positions the index holds for a token id, over all its postings.
RecordedPositions(index, id) ==
  IF id \in DOMAIN index
    THEN UNION {Elements(index[id].postings_list[i].positions) :
                  i \in 1..Len(index[id].postings_list)}
    ELSE {}

IgnoredBefore(text, s) ==
  Cardinality({k \in 0..(s - 1) : wiser_is_ignored_char(text[k + 1])})

\* C4 as amended: a window shorter than N is added to the index when
\* document_id != 0 (a document is indexed) and is discarded when
\* document_id = 0 (a query is split).
C4_ShortWindowsKeptForDocuments ==
  t_pc = "done" =>
    \A s \in ShortWindows(t_text, t_n) :
      (t_document_id # 0) <=> (WindowTokenId(t_text, t_n, s) \in DOMAIN t_postings)

C4_Witness ==
  /\ t_pc = "done"
  /\ t_document_id # 0
  /\ t_n = 2
  /\ t_text = <<97, 98>>
  /\ db_get_token_id(<<98>>) \in DOMAIN t_postings

\* C4 as claimed: a window shorter than N is added when document_id = 0 and
\* discarded when document_id != 0.
C4_AsClaimed ==
  t_pc = "done" =>
    \A s \in ShortWindows(t_text, t_n) :
      (t_document_id = 0) <=> (WindowTokenId(t_text, t_n, s) \in DOMAIN t_postings)

\* Whether the window starting at s is handed to token_to_postings_list.
Kept(s) == WindowLength(t_text, t_n, s) >= t_n \/ t_document_id # 0

\* C5 as amended: the position recorded for a token is the number of windows
\* yielded before its own, that is the index of its first code point less
\* the number of ignored code points before it; for N = 2 and the text
\* [a, b, ' ', c, d] of a document the index holds "ab" at 0, "b" at 1,
\* "cd" at 2 and "d" at 3.
C5_PositionCountsWindows ==
  t_pc = "done" =>
    /\ \A s \in WindowStarts(t_text) :
         Kept(s) =>
           (s - IgnoredBefore(t_text, s))
             \in RecordedPositions(t_postings, WindowTokenId(t_text, t_n, s))
    /\ \A id \in DOMAIN t_postings :
         \A p \in RecordedPositions(t_postings, id) :
           \E s \in WindowStarts(t_text) :
             /\ Kept(s)
             /\ WindowTokenId(t_text, t_n, s) = id
             /\ p = s - IgnoredBefore(t_text, s)
    /\ (t_text = ScenarioText /\ t_n = 2 /\ t_document_id # 0) =>
         /\ RecordedPositions(t_postings, db_get_token_id(<<97, 98>>)) = {0}
         /\ RecordedPositions(t_postings, db_get_token_id(<<98>>)) = {1}
         /\ RecordedPositions(t_postings, db_get_token_id(<<99, 100>>)) = {2}
         /\ RecordedPositions(t_postings, db_get_token_id(<<100>>)) = {3}

C5_Witness ==
  /\ t_pc = "done"
  /\ t_text = ScenarioText /\ t_n = 2 /\ t_document_id # 0
  /\ RecordedPositions(t_postings, db_get_token_id(<<99, 100>>)) = {2}

\* C5 as claimed: the position recorded for a token is the index in the text
\* of the code point at which the token begins.
C5_AsClaimed ==
  t_pc = "done" =>
    \A id \in DOMAIN t_postings :
      \A p \in RecordedPositions(t_postings, id) :
        \E s \in WindowStarts(t_text) :
          /\ Kept(s)
          /\ WindowTokenId(t_text, t_n, s) = id
          /\ p = s

(***************************************************************************)
(* The persistence bridge.  A row is what the database holds for one       *)
(* token: the docs_count column and the encoded blob.  db_rc is the        *)
(* return code of db_get_postings.                                         *)
(***************************************************************************)
NoRow == [docs_count |-> 0, blob |-> <<>>]

\* What fetch_postings makes of d, the outcome of decode_postings.
fetch_decoded(row, db_rc, d) ==
  [st |-> d.st,
   rc |-> IF d.rc # 0 THEN -1
          ELSE IF row.docs_count # d.postings_len THEN -1
          ELSE db_rc,
   postings |-> d.postings,
   postings_len |-> d.postings_len]

fetch_postings(compress, row, db_rc, junk) ==
  IF db_rc = 0 /\ Len(row.blob) # 0
    THEN fetch_decoded(row, db_rc, decode_postings(compress, row.blob, junk))
    ELSE [st |-> "ok", rc |-> db_rc, postings |-> <<>>, postings_len |-> 0]

\* An update that stores the merged list under the docs_count of the
\* in-memory list alone.
update_postings_stale_count(compress, documents_count, row, p, db_rc, junk) ==
  LET f == fetch_postings(compress, row, db_rc, junk)
      merged == IF f.postings_len # 0
                  THEN [p EXCEPT
                          !.postings_list = merge_postings(f.postings, @).list]
                  ELSE p
      e == encode_postings(compress, documents_count, merged.postings_list,
                           Len(merged.postings_list), alloc_buffer)
  IN  IF f.st = "abort"
        THEN [st |-> "abort", fetched |-> f, put |-> FALSE, row |-> row, p |-> p]
      ELSE IF f.rc # 0
        THEN [st |-> "ok", fetched |-> f, put |-> FALSE, row |-> row, p |-> p]
      ELSE IF e.st = "abort"
        THEN [st |-> "abort", fetched |-> f, put |-> FALSE, row |-> row, p |-> merged]
      ELSE [st |-> "ok", fetched |-> f, put |-> TRUE,
            row |-> [docs_count |-> merged.docs_count, blob |-> BUFFER_PTR(e.buf)],
            p |-> merged]

\* An update that stores the in-memory list whether or not the fetch worked.
update_postings_always_put(compress, documents_count, row, p, db_rc, junk) ==
  LET f == fetch_postings(compress, row, db_rc, junk)
      e == encode_postings(compress, documents_count, p.postings_list,
                           p.docs_count, alloc_buffer)
  IN  IF f.st = "abort" \/ e.st = "abort"
        THEN [st |-> "abort", fetched |-> f, put |-> FALSE, row |-> row, p |-> p]
      ELSE [st |-> "ok", fetched |-> f, put |-> TRUE,
            row |-> [docs_count |-> p.docs_count, blob |-> BUFFER_PTR(e.buf)],
            p |-> p]

\* if (old_postings_len) { p->postings_list = merge_postings(..); p->docs_count += .. }
update_merged(p, f) ==
  IF f.postings_len # 0
    THEN [p EXCEPT !.postings_list = merge_postings(f.postings, @).list,
                   !.docs_count = @ + f.postings_len]
    ELSE p

\* The outcome of update_postings, given what fetch_postings gave (f), the
\* entry after the merge (merged) and what encode_postings gave (e).
\* The result names what fetch_postings gave, whether db_update_postings was
\* called, the row afterwards and the entry p afterwards.
update_stored(row, p, f, merged, e) ==
  IF f.st = "abort"
    THEN [st |-> "abort", fetched |-> f, put |-> FALSE, row |-> row, p |-> p]
  ELSE IF f.rc # 0
    THEN [st |-> "ok", fetched |-> f, put |-> FALSE, row |-> row, p |-> p]
  ELSE IF e.st = "abort"
    THEN [st |-> "abort", fetched |-> f, put |-> FALSE, row |-> row, p |-> merged]
  ELSE [st |-> "ok", fetched |-> f, put |-> TRUE,
        row |-> [docs_count |-> merged.docs_count, blob |-> BUFFER_PTR(e.buf)],
        p |-> merged]

update_encoded(compress, documents_count, row, p, f, merged) ==
  update_stored(row, p, f, merged,
                encode_postings(compress, documents_count, merged.postings_list,
                                merged.docs_count, alloc_buffer))

update_fetched(compress, documents_count, row, p, f) ==
  update_encoded(compress, documents_count, row, p, f, update_merged(p, f))

update_postings(compress, documents_count, row, p, db_rc, junk) ==
  update_fetched(compress, documents_count, row, p,
                 fetch_postings(compress, row, db_rc, junk))

(***************************************************************************)
(* fetch_postings and update_postings on one stored row.  The row starts   *)
(* as the encoding of a legal list of a database of f_documents_count      *)
(* documents; the environment may damage it once before it is read.        *)
(***************************************************************************)
FetchList(D) == MergeList(D, "b")

\* A list whose document-id section runs over a byte boundary inside a code:
\* the ids 1, 2, 3, 4 and 9 of a database of 9 documents (m = 1) are coded as
\* the bits 0 0 0 0 11110, that is the bytes 00001111 and 00000000.
LongGapList == [i \in 1..5 |-> Posting(<<1, 2, 3, 4, 9>>[i], {0})]

\* The bytes of the document-id section of the Golomb blob of a list.
DocSection(documents_count, postings) ==
  LET m == c_div(documents_count, Len(postings))
      g == calc_golomb_params(m)
  IN  BUFFER_PTR(append_buffer(
        encode_gaps(m, g.b, g.t, DocumentIds(postings), 0, alloc_buffer), <<>>))

\* The docs_count a Golomb blob carries in its first int.
EmbeddedDocsCount(blob) == read_int(blob, <<0, 0, 0, 0>>, 1)

InitFetch ==
  /\ f_pc = "stored"
  /\ f_compress \in Compress
  /\ \/ /\ f_body \in {FetchList(D) : D \in (SUBSET (1..MaxFetchDocId)) \ {{}}}
        /\ f_documents_count \in MaxFetchDocId..MaxFetchTotal
     \/ /\ f_body = LongGapList
        /\ f_documents_count = 9
  /\ f_db = [docs_count |-> Len(f_body),
             blob |-> BUFFER_PTR(encode_postings(f_compress, f_documents_count,
                                                 f_body, Len(f_body), alloc_buffer).buf)]
  /\ f_fault = "none"
  /\ f_fetched = [st |-> "ok", rc |-> 0, postings |-> <<>>, postings_len |-> 0]
  /\ f_puts = 0
  /\ GolombIdle /\ CodecIdle /\ MergeIdle /\ TextIdle /\ IndexIdle

\* The blob is cut inside a code of its document-id section.  With m = 1 the
\* section is unary codes only, so when the last byte kept ends in a one-bit
\* and bytes of the section are lost, the zero-bit ending that code is lost.
TruncateMidCode ==
  /\ f_pc = "stored" /\ f_fault = "none" /\ f_compress = "golomb"
  /\ c_div(f_documents_count, Len(f_body)) = 1
  /\ \E k \in (2 * IntSize + 1)..
              (2 * IntSize + Len(DocSection(f_documents_count, f_body)) - 1) :
       /\ f_db.blob[k] % 2 = 1
       /\ f_db' = [f_db EXCEPT !.blob = SubSeq(f_db.blob, 1, k)]
  /\ f_fault' = "truncated"
  /\ UNCHANGED <<f_pc, f_compress, f_documents_count, f_body, f_fetched, f_puts, notFetch>>

\* The embedded docs_count and the docs_count column both come to hold d,
\* which is not the number of postings in the body.  The lists considered
\* have a document-id section of one byte, so that the position sections
\* are still found at their offsets.
CorruptCounts ==
  /\ f_pc = "stored" /\ f_fault = "none" /\ f_compress = "golomb"
  /\ Len(DocSection(f_documents_count, f_body)) = 1
  /\ \E d \in 0..(MaxFetchDocId + 1) :
       /\ d # Len(f_body)
       /\ f_db' = [docs_count |-> d,
                   blob |-> int_bytes(d) \o SubSeq(f_db.blob, IntSize + 1, Len(f_db.blob))]
  /\ f_fault' = "counts"
  /\ UNCHANGED <<f_pc, f_compress, f_documents_count, f_body, f_fetched, f_puts, notFetch>>

\* Only the docs_count column comes to hold d.
CorruptStoredCount ==
  /\ f_pc = "stored" /\ f_fault = "none"
  /\ \E d \in 0..(MaxFetchDocId + 1) :
       /\ d # Len(f_body)
       /\ f_db' = [f_db EXCEPT !.docs_count = d]
  /\ f_fault' = "stored_count"
  /\ UNCHANGED <<f_pc, f_compress, f_documents_count, f_body, f_fetched, f_puts, notFetch>>

DbRc == {0, -1}

FetchPostings ==
  /\ f_pc = "stored"
  /\ \E db_rc \in DbRc, junk \in JunkPatterns :
       /\ f_fetched' = fetch_postings(f_compress, f_db, db_rc, junk)
       /\ f_pc' = IF f_fetched'.st = "abort" THEN "aborted" ELSE "fetched"
  /\ UNCHANGED <<f_compress, f_documents_count, f_body, f_db, f_fault, f_puts, notFetch>>

\* The entry of the token after the next document, whose id is one more than
\* the number of documents so far, has been accumulated.
NewEntry(document_id) ==
  [token_id |-> 1, docs_count |-> 1, positions_count |-> 1,
   postings_list |-> <<Posting(document_id, {0})>>]

UpdatePostings ==
  /\ f_pc = "stored"
  /\ \E db_rc \in DbRc, junk \in JunkPatterns :
       \E u \in {update_postings(f_compress, f_documents_count + 1, f_db,
                                 NewEntry(f_documents_count + 1), db_rc, junk)} :
           /\ f_fetched' = u.fetched
           /\ f_db' = u.row
           /\ f_puts' = IF u.put THEN f_puts + 1 ELSE f_puts
           /\ f_pc' = IF u.st = "abort" THEN "aborted" ELSE "updated"
  /\ UNCHANGED <<f_compress, f_documents_count, f_body, f_fault, notFetch>>

NextFetch ==
  \/ TruncateMidCode
  \/ CorruptCounts
  \/ CorruptStoredCount
  \/ FetchPostings
  \/ UpdatePostings

SpecFetch == InitFetch /\ [][NextFetch]_vars

\* C6 as claimed: fetching a Golomb blob that is cut in the middle of a code
\* returns failure and yields an empty posting list.
C6_AsClaimed ==
  (f_pc = "fetched" /\ f_fault = "truncated") =>
    /\ f_fetched.st = "ok"
    /\ f_fetched.rc # 0
    /\ f_fetched.postings = <<>>

\* C7 as claimed: in Golomb mode fetch_postings returns failure whenever the
\* embedded docs_count disagrees with the number of postings encoded in the
\* body, in particular for a header and a docs_count column of 3 over a body
\* of 2 postings.
C7_AsClaimed ==
  (/\ f_pc = "fetched"
   /\ f_compress = "golomb"
   /\ EmbeddedDocsCount(f_db.blob) = 3
   /\ f_db.docs_count = 3
   /\ Len(f_body) = 2) =>
    /\ f_fetched.st = "ok"
    /\ f_fetched.rc # 0

\* C9: when fetch_postings fails inside update_postings (the blob store
\* fails, or the decoded list does not have the stored docs_count),
\* update_postings does not call db_update_postings and the row is unchanged.
C9_NoPutAfterFailedFetch ==
  [][(f_pc' = "updated" /\ f_fetched'.rc # 0) =>
       (f_db' = f_db /\ f_puts' = f_puts)]_vars

C9_Witness ==
  /\ f_pc = "updated"
  /\ f_fault = "stored_count"
  /\ f_fetched.rc # 0
  /\ f_fetched.postings_len = Len(f_body)
  /\ f_puts = 0

(***************************************************************************)
(* Indexing against the store: documents are accumulated into the          *)
(* in-memory index env->ii_buffer, and a flush calls update_postings on    *)
(* every entry of it and releases the entry.  The store neither fails nor  *)
(* is damaged here.  i_last remembers, for the latest update_postings, the *)
(* list that was fetched and the list that was in memory.                  *)
(***************************************************************************)
MaxIndexDocs == 2
MaxIndexDocId == 3

IndexTexts == {<<>>, <<97, 98>>, <<98, 97, 98>>, <<97, 32, 98>>}

IndexNgrams == {1, 2}

NoUpdate == [token_id |-> 0, old |-> <<>>, mem |-> <<>>, put |-> FALSE]

InitIndex ==
  /\ i_pc = "add"
  /\ i_compress \in Compress
  /\ i_n \in IndexNgrams
  /\ i_documents_count = 0
  /\ i_used = {}
  /\ i_buffer = NoIndex
  /\ i_store = <<>>
  /\ i_last = NoUpdate
  /\ GolombIdle /\ CodecIdle /\ MergeIdle /\ TextIdle /\ FetchIdle

\* A document is registered (the document count grows) and its text is
\* accumulated under an id that is not zero and was never used.
AddDocument ==
  /\ i_pc = "add"
  /\ Cardinality(i_used) < MaxIndexDocs
  /\ \E document_id \in (1..MaxIndexDocId) \ i_used, text \in IndexTexts :
       /\ i_buffer' = text_to_postings_lists(i_store, document_id, text, i_n, i_buffer)
       /\ i_used' = i_used \cup {document_id}
  /\ i_documents_count' = i_documents_count + 1
  /\ UNCHANGED <<i_pc, i_compress, i_n, i_store, i_last, notIndex>>

StartFlush ==
  /\ i_pc = "add"
  /\ DOMAIN i_buffer # {}
  /\ i_pc' = "flush"
  /\ UNCHANGED <<i_compress, i_n, i_documents_count, i_used, i_buffer, i_store,
                 i_last, notIndex>>

\* update_postings on one entry of the buffer, which is then released.
FlushUpdatePostings ==
  /\ i_pc = "flush"
  /\ \E t \in DOMAIN i_buffer, junk \in JunkPatterns :
       \E u \in {update_postings(i_compress, i_documents_count,
                                 IF t \in DOMAIN i_store THEN i_store[t] ELSE NoRow,
                                 i_buffer[t], 0, junk)},
          rest \in {[k \in DOMAIN i_buffer \ {t} |-> i_buffer[k]]} :
           /\ i_store' = IF u.put THEN (t :> u.row) @@ i_store ELSE i_store
           /\ i_buffer' = rest
           /\ i_last' = [token_id |-> t, old |-> u.fetched.postings,
                         mem |-> i_buffer[t].postings_list, put |-> u.put]
           /\ i_pc' = IF u.st = "abort" THEN "aborted"
                      ELSE IF DOMAIN rest = {} THEN "add" ELSE "flush"
  /\ UNCHANGED <<i_compress, i_n, i_documents_count, i_used, notIndex>>

NextIndex == AddDocument \/ StartFlush \/ FlushUpdatePostings

SpecIndex == InitIndex /\ [][NextIndex]_vars

\* C8: after documents were accumulated and update_postings ran, every
\* stored docs_count is the number of postings its blob decodes to, the
\* decoded list is strictly ascending, and the list stored by the latest
\* update holds exactly the postings of the list stored before and of the
\* list that was in memory.
C8_StoredCountAndMerge ==
  /\ i_pc # "aborted"
  /\ \A t \in DOMAIN i_store, junk \in JunkPatterns :
       LET d == decode_postings(i_compress, i_store[t].blob, junk)
       IN  /\ d.st = "ok" /\ d.rc = 0
           /\ i_store[t].docs_count = Len(d.postings)
           /\ d.postings_len = Len(d.postings)
           /\ StrictlyAscending(d.postings)
  /\ i_last.token_id # 0 =>
       /\ i_last.put
       /\ Elements(decode_postings(i_compress, i_store[i_last.token_id].blob,
                                   <<0, 0, 0, 0>>).postings)
            = Elements(i_last.old) \cup Elements(i_last.mem)

C8_Witness ==
  /\ i_compress = "golomb"
  /\ i_last.token_id # 0
  /\ Len(i_last.old) = 1 /\ Len(i_last.mem) = 1
  /\ i_last.mem[1].document_id < i_last.old[1].document_id
  /\ i_store[i_last.token_id].docs_count = 2

RECURSIVE SumPositions(_)
SumPositions(list) ==
  IF list = <<>> THEN 0 ELSE Len(Head(list).positions) + SumPositions(Tail(list))

\* C10 as claimed: every entry of the in-memory index has a positions_count
\* equal to the number of positions of all its postings together.
C10_AsClaimed ==
  \A t \in DOMAIN i_buffer :
    i_buffer[t].positions_count = SumPositions(i_buffer[t].postings_list)

(***************************************************************************)
(* The parameters the Golomb blob of the scenario list carries: the list   *)
(* [(1,[0,4]), (3,[7])] encoded for 10 documents.                          *)
(***************************************************************************)
\* int gap = p->document_id - pre_document_id - 1, and the same for positions.
Gaps(values, pre) ==
  [i \in 1..Len(values) |-> values[i] - (IF i = 1 THEN pre ELSE values[i - 1]) - 1]

\* Where the position section of the first posting begins in a Golomb blob:
\* after docs_count, m and the document-id section.
FirstPositionsAt(documents_count, postings) ==
  2 * IntSize + Len(DocSection(documents_count, postings)) + 1

ScenarioEncoded ==
  /\ c_pc \in {"encoded", "decoded"}
  /\ c_compress = "golomb"
  /\ c_postings = ScenarioList
  /\ c_documents_count = 10

\* The gaps found in the blob from byte p when k codes are read with m and
\* the parameters calc_golomb_params gives for it.
CodedGaps(blob, p, m, pre, k) ==
  Gaps(decode_gaps(m, calc_golomb_params(m).b, calc_golomb_params(m).t, blob,
                   [p |-> p, bit |-> 128], pre, k).values, pre)

\* C12: the Golomb blob of [(1,[0,4]), (3,[7])] for 10 documents codes the
\* document ids with m = 5, b = 3, t = 3 over the gaps [0, 1], and the
\* positions of document 1 with m = 2, b = 1, t = 0 over the gaps [0, 3].
C12_ScenarioParameters ==
  ScenarioEncoded =>
    /\ read_int(c_blob, <<0, 0, 0, 0>>, 1 + IntSize) = 5
    /\ calc_golomb_params(5) = [ok |-> TRUE, b |-> 3, t |-> 3]
    /\ Gaps(DocumentIds(c_postings), 0) = <<0, 1>>
    /\ CodedGaps(c_blob, 2 * IntSize + 1, 5, 0, 2) = <<0, 1>>
    /\ read_int(c_blob, <<0, 0, 0, 0>>, FirstPositionsAt(10, c_postings)) = 2
    /\ read_int(c_blob, <<0, 0, 0, 0>>, FirstPositionsAt(10, c_postings) + IntSize) = 2
    /\ calc_golomb_params(2) = [ok |-> TRUE, b |-> 1, t |-> 0]
    /\ Gaps(c_postings[1].positions, -1) = <<0, 3>>
    /\ CodedGaps(c_blob, FirstPositionsAt(10, c_postings) + 2 * IntSize, 2, -1, 2)
         = <<0, 3>>

C12_Witness ==
  /\ ScenarioEncoded
  /\ c_pc = "encoded"
  /\ Len(c_blob) > FirstPositionsAt(10, c_postings) + 2 * IntSize

\* C12 as claimed: as above, with t = 1 for the positions of document 1.
C12_AsClaimed ==
  ScenarioEncoded =>
    /\ read_int(c_blob, <<0, 0, 0, 0>>, 1 + IntSize) = 5
    /\ calc_golomb_params(5) = [ok |-> TRUE, b |-> 3, t |-> 3]
    /\ Gaps(DocumentIds(c_postings), 0) = <<0, 1>>
    /\ read_int(c_blob, <<0, 0, 0, 0>>, FirstPositionsAt(10, c_postings) + IntSize) = 2
    /\ calc_golomb_params(2) = [ok |-> TRUE, b |-> 1, t |-> 1]
    /\ Gaps(c_postings[1].positions, -1) = <<0, 3>>

=============================================================================
